---- MODULE Spec2Model ----
(***************************************************************************)
(* Model of the memcached loader of src/main.go: main() discovers files,   *)
(* stats and sorts them by modification time, and calls processFile on     *)
(* each in turn.  processFile scans the lines of one gzip file, parses     *)
(* each, routes it by device type and dispatches one write goroutine per   *)
(* record under a semaphore; a counting goroutine drains resultChan into   *)
(* the locals processed / errors, which processFile reads after wg.Wait,   *)
(* close(resultChan) and a 100 ms sleep.                                   *)
(*                                                                         *)
(* Threads of control: the main goroutine (mainpc), the counting goroutine *)
(* of the current processFile call (cpc) and the write goroutines (tasks). *)
(* A goroutine that has returned is no longer tracked.  The counting       *)
(* goroutine of an earlier processFile call can only touch that call's     *)
(* locals, which nothing reads any more; it is dropped at the next call.   *)
(***************************************************************************)
EXTENDS Integers, Sequences, FiniteSets, Bags, TLC

\* ---------------------------------------------------------------- bounds
\* Pipeline specification (Spec): discovered files, distinct modification
\* times, lines scanned per file.
PipeFiles == 2
PipeTimes == 1
PipeLines == 2
\* Ordering specification (SpecOrder): discovered files, distinct
\* modification times.  Its files are empty.
OrderFiles == 3
OrderTimes == 3
\* Capacity of the semaphore channel.  main.go:362 makes it with capacity
\* 100 and hands it to processFile as a parameter; the model scales it.
SemCap == 1
\* Capacity of resultChan (main.go:165 makes it with capacity 1000), scaled.
ResultCap == 1
\* Evaluation specification (SpecEval): largest final counter value.
MaxCount == 101
\* Parsing specification (SpecParse): tab-separated fields of a line.
MaxFields == 6
\* Serialization specification (SpecProto): app ids of a record.
MaxApps == 2

VARIABLES
    files,       \* filepath.Glob result: modification time of each path, in discovery order
    lineLimit,   \* number of lines a file of this run holds at most
    dry,         \* config.Dry
    fileInfos,   \* main's fileInfos slice: <<[path, modTime], ...>>
    cur,         \* index in fileInfos of the file processFile was last called on
    mainpc,      \* position of the main goroutine
    semaphore,   \* number of elements in the semaphore channel
    \* locals of the current processFile call
    processed, errors, resultChan, closed, wg,
    scanned,     \* lines the scanner has returned so far
    mainReg,     \* value of errors loaded by the scanning loop's errors++
    cpc, creg,   \* counting goroutine: position, value of errors loaded by its errors++
    tasks,       \* bag of live write goroutines [pc, ok, writes]
    \* what the current processFile call has done (reset at the next call)
    fate,        \* "none" | "openErr" | "gzipErr" | "scanning" | "readErr"
    dispatched,  \* write goroutines started
    received,    \* outcomes the counting goroutine has taken from resultChan
    failed,      \* write goroutines whose insertAppsInstalled returned an error
    lineErrs,    \* lines that failed to parse or to route
    evalLog,     \* "none" | "success" | "failure"
    renames,     \* calls of dotRename
    marked,      \* os.Rename succeeded
    panicked,    \* a goroutine sent on the closed resultChan
    renameErrLogged, \* a log line was written for a failed dotRename
    \* the parsing specification (SpecParse)
    parseLine,   \* the line handed to parseAppsInstalled
    parseResult, \* what parseAppsInstalled returned
    \* the serialization specification (SpecProto)
    record,      \* the AppsInstalled handed to insertAppsInstalled
    packed,      \* the bytes proto.Marshal returned
    unpacked     \* the message proto.Unmarshal filled

vars == <<files, lineLimit, dry, fileInfos, cur, mainpc, semaphore,
          processed, errors, resultChan, closed, wg, scanned, mainReg,
          cpc, creg, tasks, fate, dispatched, received, failed, lineErrs,
          evalLog, renames, marked, panicked, renameErrLogged,
          parseLine, parseResult, record, packed, unpacked>>

\* ------------------------------------------------------- parseAppsInstalled
\* A line is text with two delimiter levels: a sequence of tab-separated
\* fields, each a sequence of comma-separated tokens.  A field without a
\* comma is a one-token sequence; the empty field is <<"">>.
EmptyField == <<"">>

\* Tokens that consist of white space only.
IsSpaceTok(t) == t \in {"", " "}

\* strings.TrimSpace on a token: surrounding white space removed.
TrimTok(t) ==
    CASE t = " "   -> ""
      [] t = " 7"  -> "7"
      [] t = "3 "  -> "3"
      [] OTHER     -> t

\* A field is white space only when it holds no comma and its one token is.
IsSpaceField(f) == Len(f) = 1 /\ IsSpaceTok(f[1])

RECURSIVE DropLeading(_)
DropLeading(l) ==
    IF l = <<>> THEN <<>>
    ELSE IF IsSpaceField(Head(l)) THEN DropLeading(Tail(l))
    ELSE l

RECURSIVE DropTrailing(_)
DropTrailing(l) ==
    IF l = <<>> THEN <<>>
    ELSE IF IsSpaceField(l[Len(l)]) THEN DropTrailing(SubSeq(l, 1, Len(l) - 1))
    ELSE l

\* strings.TrimSpace on a line: the tab is white space, so leading and
\* trailing fields that are empty go with their tabs.  What is left of an
\* all-white line is the empty string, which Split turns into one empty field.
TrimSpace(l) ==
    LET t == DropTrailing(DropLeading(l))
    IN  IF t = <<>> THEN <<EmptyField>> ELSE t

\* strconv.ParseFloat(s, 64): [err, v], v in hundredths.
ParseFloat(f) ==
    IF Len(f) # 1 THEN [err |-> TRUE, v |-> 0]
    ELSE CASE f[1] = "55.55" -> [err |-> FALSE, v |-> 5555]
           [] f[1] = "42.42" -> [err |-> FALSE, v |-> 4242]
           [] f[1] = "0"     -> [err |-> FALSE, v |-> 0]
           [] f[1] = "1"     -> [err |-> FALSE, v |-> 100]
           [] f[1] = "3"     -> [err |-> FALSE, v |-> 300]
           [] f[1] = "7"     -> [err |-> FALSE, v |-> 700]
           [] OTHER          -> [err |-> TRUE, v |-> 0]

\* strconv.ParseUint(s, 10, 32): [err, v].
ParseUint(t) ==
    CASE t = "0" -> [err |-> FALSE, v |-> 0]
      [] t = "1" -> [err |-> FALSE, v |-> 1]
      [] t = "3" -> [err |-> FALSE, v |-> 3]
      [] t = "7" -> [err |-> FALSE, v |-> 7]
      [] OTHER   -> [err |-> TRUE, v |-> 0]

RECURSIVE ParseApps(_)
ParseApps(toks) ==
    IF toks = <<>> THEN <<>>
    ELSE LET appStr == TrimTok(Head(toks))
             rest   == ParseApps(Tail(toks))
         IN  IF appStr = "" THEN rest
             ELSE IF ParseUint(appStr).err THEN rest
             ELSE <<ParseUint(appStr).v>> \o rest

parseAppsInstalled(line) ==
    LET parts == TrimSpace(line)
    IN  IF Len(parts) < 5 THEN [err |-> "MalformedLine"]
        ELSE IF parts[1] = EmptyField \/ parts[2] = EmptyField
             THEN [err |-> "MissingIdentity"]
        ELSE IF ParseFloat(parts[3]).err THEN [err |-> "InvalidCoordinate"]
        ELSE IF ParseFloat(parts[4]).err THEN [err |-> "InvalidCoordinate"]
        ELSE [err |-> "nil", DevType |-> parts[1], DevID |-> parts[2],
              Lat |-> ParseFloat(parts[3]).v, Lon |-> ParseFloat(parts[4]).v,
              Apps |-> ParseApps(parts[5])]

\* Keys of the deviceMemc map.
deviceMemc == {<<"idfa">>, <<"gaid">>, <<"adid">>, <<"dvid">>}

\* Lines the scanner may return.
Lines ==
    { <<EmptyField>>,
      <<<<"idfa">>, <<"ID1">>, <<"55.55">>>>,
      <<EmptyField, EmptyField, <<"55.55">>, <<"42.42">>, <<"1">>>>,
      <<<<"idfa">>, EmptyField, <<"55.55">>, <<"42.42">>, <<"1">>>>,
      <<<<"idfa">>, <<"ID1">>, <<"bad">>, <<"42.42">>, <<"1", "3">>>>,
      <<<<"idfa">>, <<"ID1">>, <<"55.55">>, <<"42.42">>, <<"1", "x", "3">>>>,
      <<<<"gaid">>, <<"ID1">>, <<"55.55">>, <<"42.42">>, <<"x">>>>,
      <<<<"zzz">>, <<"ID1">>, <<"55.55">>, <<"42.42">>, <<"1">>>> }

\* ------------------------------------------------------------------ main
\* The slice main builds from the files whose os.Stat succeeded.
StatOf(okset) ==
    SelectSeq([i \in DOMAIN files |-> [path |-> i, modTime |-> files[i]]],
              LAMBDA fi : fi.path \in okset)

\* Faulty variant of After: the comparison the wrong way round.
AfterReversed(t, u) == t < u

\* time.Time.After
After(t, u) == t > u

Swap(s, i, j) == [s EXCEPT ![i] = s[j], ![j] = s[i]]

\* The inner loop of the sort, from j on.
RECURSIVE SortInner(_, _, _)
SortInner(s, i, j) ==
    IF j > Len(s) THEN s
    ELSE SortInner(IF After(s[i].modTime, s[j].modTime) THEN Swap(s, i, j) ELSE s,
                   i, j + 1)

\* The outer loop of the sort, from i on.
RECURSIVE SortOuter(_, _)
SortOuter(s, i) ==
    IF i > Len(s) THEN s
    ELSE SortOuter(SortInner(s, i, i + 1), i + 1)

SortByModTime(s) == SortOuter(s, 1)

\* The locals of a processFile call, and the record of what it has done,
\* as they are when the call starts.
FreshCall ==
    /\ processed' = 0
    /\ errors' = 0
    /\ resultChan' = <<>>
    /\ closed' = FALSE
    /\ wg' = 0
    /\ scanned' = 0
    /\ mainReg' = 0
    /\ cpc' = "none"
    /\ creg' = 0
    /\ fate' = "none"
    /\ dispatched' = 0
    /\ received' = 0
    /\ failed' = 0
    /\ lineErrs' = 0
    /\ evalLog' = "none"
    /\ renames' = 0
    /\ marked' = FALSE

locals == <<processed, errors, resultChan, closed, wg, scanned, mainReg,
            cpc, creg, fate, dispatched, received, failed, lineErrs,
            evalLog, renames, marked>>

\* What no step of main or processFile changes: the inputs of the run, the
\* log of failed renames (dotRename's error is dropped at every call) and
\* the variables of the parsing and serialization specifications.
pure == <<parseLine, parseResult, record, packed, unpacked>>

config == <<files, lineLimit, dry, renameErrLogged, pure>>

\* os.Stat on every discovered file; the ones that fail are left out.
StatFiles ==
    /\ mainpc = "stat"
    /\ \E okset \in SUBSET DOMAIN files : fileInfos' = StatOf(okset)
    /\ mainpc' = "sort"
    /\ UNCHANGED <<config, cur, semaphore, tasks, locals, panicked>>

SortFiles ==
    /\ mainpc = "sort"
    /\ fileInfos' = SortByModTime(fileInfos)
    /\ mainpc' = "loop"
    /\ UNCHANGED <<config, cur, semaphore, tasks, locals, panicked>>

\* The next iteration of the loop over fileInfos: processFile is called.
CallProcessFile ==
    /\ mainpc = "loop"
    /\ cur < Len(fileInfos)
    /\ cur' = cur + 1
    /\ mainpc' = "open"
    /\ FreshCall
    /\ UNCHANGED <<config, fileInfos, semaphore, tasks, panicked>>

\* The loop over fileInfos has ended.
Finish ==
    /\ mainpc = "loop"
    /\ cur = Len(fileInfos)
    /\ mainpc' = "done"
    /\ UNCHANGED <<config, fileInfos, cur, semaphore, tasks, locals, panicked>>

\* ----------------------------------------------------------- processFile
\* os.Open: on an error processFile logs and returns.
OpenFile ==
    /\ mainpc = "open"
    /\ \E ok \in BOOLEAN :
          IF ok THEN /\ mainpc' = "gzip"
                     /\ fate' = fate
                ELSE /\ mainpc' = "loop"
                     /\ fate' = "openErr"
    /\ UNCHANGED <<config, fileInfos, cur, semaphore, processed, errors,
                   resultChan, closed, wg, scanned, mainReg, cpc, creg, tasks,
                   dispatched, received, failed, lineErrs, evalLog, renames,
                   marked, panicked>>

\* gzip.NewReader reads the gzip header: on an error processFile logs and
\* returns.  Otherwise the locals are set up and the counting goroutine is
\* started.
NewGzipReader ==
    /\ mainpc = "gzip"
    /\ \E ok \in BOOLEAN :
          IF ok THEN /\ mainpc' = "scan"
                     /\ fate' = "scanning"
                     /\ cpc' = "recv"
                ELSE /\ mainpc' = "loop"
                     /\ fate' = "gzipErr"
                     /\ cpc' = cpc
    /\ UNCHANGED <<config, fileInfos, cur, semaphore, processed, errors,
                   resultChan, closed, wg, scanned, mainReg, creg, tasks,
                   dispatched, received, failed, lineErrs, evalLog, renames,
                   marked, panicked>>

\* scanner.Scan returns a line.  A blank line is skipped; a line that does
\* not parse, or whose device type is no key of deviceMemc, starts errors++
\* (the load; the store is ErrStore); any other line does wg.Add(1) and goes
\* on to the semaphore.
ScanLine ==
    /\ mainpc = "scan"
    /\ scanned < lineLimit
    /\ scanned' = scanned + 1
    /\ \E text \in Lines :
          LET line == TrimSpace(text)
              appsInstalled == parseAppsInstalled(line)
          IN  IF line = <<EmptyField>>
              THEN /\ mainpc' = "scan"
                   /\ UNCHANGED <<mainReg, lineErrs, wg>>
              ELSE IF appsInstalled.err # "nil"
              THEN /\ mainReg' = errors
                   /\ lineErrs' = lineErrs + 1
                   /\ mainpc' = "errStore"
                   /\ wg' = wg
              ELSE IF appsInstalled.DevType \notin deviceMemc
              THEN /\ mainReg' = errors
                   /\ lineErrs' = lineErrs + 1
                   /\ mainpc' = "errStore"
                   /\ wg' = wg
              ELSE /\ wg' = wg + 1
                   /\ mainpc' = "acquire"
                   /\ UNCHANGED <<mainReg, lineErrs>>
    /\ UNCHANGED <<config, fileInfos, cur, semaphore, processed, errors,
                   resultChan, closed, cpc, creg, tasks, fate, dispatched,
                   received, failed, evalLog, renames, marked, panicked>>

\* The store of the scanning loop's errors++.
ErrStore ==
    /\ mainpc = "errStore"
    /\ errors' = mainReg + 1
    /\ mainpc' = "scan"
    /\ UNCHANGED <<config, fileInfos, cur, semaphore, processed, resultChan,
                   closed, wg, scanned, mainReg, cpc, creg, tasks, fate,
                   dispatched, received, failed, lineErrs, evalLog, renames,
                   marked, panicked>>

\* Faulty variant of Acquire: the goroutine is started without taking a slot first.
AcquireUngated ==
    /\ mainpc = "acquire"
    /\ semaphore' = semaphore + 1
    /\ tasks' = tasks (+) SetToBag({[pc |-> "insert", ok |-> TRUE, writes |-> 0]})
    /\ dispatched' = dispatched + 1
    /\ mainpc' = "scan"
    /\ UNCHANGED <<config, fileInfos, cur, processed, errors, resultChan,
                   closed, wg, scanned, mainReg, cpc, creg, fate, received,
                   failed, lineErrs, evalLog, renames, marked, panicked>>

NewTask == [pc |-> "insert", ok |-> TRUE, writes |-> 0]

\* semaphore <- struct{}{} blocks while the channel is full; then the write
\* goroutine is started.
Acquire ==
    /\ mainpc = "acquire"
    /\ semaphore < SemCap
    /\ semaphore' = semaphore + 1
    /\ tasks' = tasks (+) SetToBag({NewTask})
    /\ dispatched' = dispatched + 1
    /\ mainpc' = "scan"
    /\ UNCHANGED <<config, fileInfos, cur, processed, errors, resultChan,
                   closed, wg, scanned, mainReg, cpc, creg, fate, received,
                   failed, lineErrs, evalLog, renames, marked, panicked>>

\* scanner.Scan returns false at the end of the input.
ScanEOF ==
    /\ mainpc = "scan"
    /\ mainpc' = "wait"
    /\ UNCHANGED <<config, fileInfos, cur, semaphore, tasks, locals, panicked>>

\* scanner.Scan returns false because the gzip reader failed (corrupt or
\* truncated data after the header): scanner.Err() is not nil.
ScanError ==
    /\ mainpc = "scan"
    /\ fate' = "readErr"
    /\ mainpc' = "wait"
    /\ UNCHANGED <<config, fileInfos, cur, semaphore, processed, errors,
                   resultChan, closed, wg, scanned, mainReg, cpc, creg, tasks,
                   dispatched, received, failed, lineErrs, evalLog, renames,
                   marked, panicked>>

\* ------------------------------------------------------ write goroutines
Move(t, u) == (tasks (-) SetToBag({t})) (+) SetToBag({u})

\* Faulty variant of InsertResult: a failed client.Set is tried once more.
InsertResultRetry(t) ==
    {[t EXCEPT !.pc = "send", !.ok = FALSE]} \cup
    (IF dry THEN {[t EXCEPT !.pc = "send", !.ok = TRUE]}
     ELSE {[t EXCEPT !.pc = "send", !.ok = TRUE, !.writes = t.writes + 1],
           [t EXCEPT !.pc = "send", !.ok = TRUE, !.writes = t.writes + 2],
           [t EXCEPT !.pc = "send", !.ok = FALSE, !.writes = t.writes + 2]})

\* insertAppsInstalled: proto.Marshal may fail (no write); in dry mode the
\* record is logged (no write); otherwise one client.Set, which succeeds or
\* fails.
InsertResult(t) ==
    {[t EXCEPT !.pc = "send", !.ok = FALSE]} \cup
    (IF dry THEN {[t EXCEPT !.pc = "send", !.ok = TRUE]}
     ELSE {[t EXCEPT !.pc = "send", !.ok = r, !.writes = t.writes + 1] : r \in BOOLEAN})

Insert ==
    \E t \in BagToSet(tasks) :
       /\ t.pc = "insert"
       /\ \E u \in InsertResult(t) :
             /\ tasks' = Move(t, u)
             /\ failed' = IF u.ok THEN failed ELSE failed + 1
       /\ UNCHANGED <<config, fileInfos, cur, mainpc, semaphore, processed,
                      errors, resultChan, closed, wg, scanned, mainReg, cpc,
                      creg, fate, dispatched, received, lineErrs, evalLog,
                      renames, marked, panicked>>

\* Faulty variant of Send: a failed insert hands no outcome over.
SendOnlySuccess ==
    \E t \in BagToSet(tasks) :
       /\ t.pc = "send"
       /\ IF t.ok
          THEN /\ Len(resultChan) < ResultCap
               /\ resultChan' = Append(resultChan, t.ok)
          ELSE UNCHANGED resultChan
       /\ tasks' = Move(t, [t EXCEPT !.pc = "release"])
       /\ UNCHANGED <<config, fileInfos, cur, mainpc, semaphore, processed,
                      errors, closed, wg, scanned, mainReg, cpc, creg, fate,
                      dispatched, received, failed, lineErrs, evalLog,
                      renames, marked, panicked>>

\* resultChan <- (err == nil): blocks while the channel is full, panics when
\* it is closed.
Send ==
    \E t \in BagToSet(tasks) :
       /\ t.pc = "send"
       /\ IF closed
          THEN /\ panicked' = TRUE
               /\ tasks' = tasks (-) SetToBag({t})
               /\ UNCHANGED resultChan
          ELSE /\ Len(resultChan) < ResultCap
               /\ resultChan' = Append(resultChan, t.ok)
               /\ tasks' = Move(t, [t EXCEPT !.pc = "release"])
               /\ UNCHANGED panicked
       /\ UNCHANGED <<config, fileInfos, cur, mainpc, semaphore, processed,
                      errors, closed, wg, scanned, mainReg, cpc, creg, fate,
                      dispatched, received, failed, lineErrs, evalLog,
                      renames, marked>>

\* Faulty variant of Release: the slot is given back on the success path only.
ReleaseOnSuccessOnly ==
    \E t \in BagToSet(tasks) :
       /\ t.pc = "release"
       /\ semaphore' = IF t.ok THEN semaphore - 1 ELSE semaphore
       /\ tasks' = Move(t, [t EXCEPT !.pc = "wgDone"])
       /\ UNCHANGED <<config, fileInfos, cur, mainpc, processed, errors,
                      resultChan, closed, wg, scanned, mainReg, cpc, creg,
                      fate, dispatched, received, failed, lineErrs, evalLog,
                      renames, marked, panicked>>

\* The deferred func() { <-semaphore }(), run first when the goroutine's
\* function returns.
Release ==
    \E t \in BagToSet(tasks) :
       /\ t.pc = "release"
       /\ semaphore' = semaphore - 1
       /\ tasks' = Move(t, [t EXCEPT !.pc = "wgDone"])
       /\ UNCHANGED <<config, fileInfos, cur, mainpc, processed, errors,
                      resultChan, closed, wg, scanned, mainReg, cpc, creg,
                      fate, dispatched, received, failed, lineErrs, evalLog,
                      renames, marked, panicked>>

\* Faulty variant of WgDone: the goroutine ends without wg.Done.
WgDoneForgotten ==
    \E t \in BagToSet(tasks) :
       /\ t.pc = "wgDone"
       /\ tasks' = tasks (-) SetToBag({t})
       /\ UNCHANGED <<config, fileInfos, cur, mainpc, semaphore, processed,
                      errors, resultChan, closed, wg, scanned, mainReg, cpc,
                      creg, fate, dispatched, received, failed, lineErrs,
                      evalLog, renames, marked, panicked>>

\* The deferred wg.Done(), run last; the goroutine is gone after it.
WgDone ==
    \E t \in BagToSet(tasks) :
       /\ t.pc = "wgDone"
       /\ wg' = wg - 1
       /\ tasks' = tasks (-) SetToBag({t})
       /\ UNCHANGED <<config, fileInfos, cur, mainpc, semaphore, processed,
                      errors, resultChan, closed, scanned, mainReg, cpc, creg,
                      fate, dispatched, received, failed, lineErrs, evalLog,
                      renames, marked, panicked>>

\* ---------------------------------------------------- counting goroutine
\* One iteration of `for ok := range resultChan`: processed++ for a true
\* outcome (this goroutine is the only writer of processed), the load of
\* errors++ for a false one.
CounterRecv ==
    /\ cpc = "recv"
    /\ resultChan # <<>>
    /\ resultChan' = Tail(resultChan)
    /\ received' = received + 1
    /\ IF Head(resultChan)
       THEN /\ processed' = processed + 1
            /\ UNCHANGED <<cpc, creg>>
       ELSE /\ creg' = errors
            /\ cpc' = "errStore"
            /\ UNCHANGED processed
    /\ UNCHANGED <<config, fileInfos, cur, mainpc, semaphore, errors, closed,
                   wg, scanned, mainReg, tasks, fate, dispatched, failed,
                   lineErrs, evalLog, renames, marked, panicked>>

\* The store of the counting goroutine's errors++.
CounterErrStore ==
    /\ cpc = "errStore"
    /\ errors' = creg + 1
    /\ cpc' = "recv"
    /\ UNCHANGED <<config, fileInfos, cur, mainpc, semaphore, processed,
                   resultChan, closed, wg, scanned, mainReg, creg, tasks, fate,
                   dispatched, received, failed, lineErrs, evalLog, renames,
                   marked, panicked>>

\* The range loop ends when resultChan is closed and drained.
CounterExit ==
    /\ cpc = "recv"
    /\ resultChan = <<>>
    /\ closed
    /\ cpc' = "exit"
    /\ UNCHANGED <<config, fileInfos, cur, mainpc, semaphore, processed,
                   errors, resultChan, closed, wg, scanned, mainReg, creg,
                   tasks, fate, dispatched, received, failed, lineErrs,
                   evalLog, renames, marked, panicked>>

\* ------------------------------------------- processFile, after the scan
\* Faulty variant of WgWait: processFile goes on without joining the goroutines.
WgWaitNoJoin ==
    /\ mainpc = "wait"
    /\ mainpc' = "close"
    /\ UNCHANGED <<config, fileInfos, cur, semaphore, tasks, locals, panicked>>

WgWait ==
    /\ mainpc = "wait"
    /\ wg = 0
    /\ mainpc' = "close"
    /\ UNCHANGED <<config, fileInfos, cur, semaphore, tasks, locals, panicked>>

CloseResultChan ==
    /\ mainpc = "close"
    /\ closed' = TRUE
    /\ mainpc' = "sleep"
    /\ UNCHANGED <<config, fileInfos, cur, semaphore, processed, errors,
                   resultChan, wg, scanned, mainReg, cpc, creg, tasks, fate,
                   dispatched, received, failed, lineErrs, evalLog, renames,
                   marked, panicked>>

\* time.Sleep(100 * time.Millisecond) returns when the time has passed,
\* whatever the counting goroutine has done by then.
Sleep ==
    /\ mainpc = "sleep"
    /\ mainpc' = "readProcessed"
    /\ UNCHANGED <<config, fileInfos, cur, semaphore, tasks, locals, panicked>>

\* Faulty variant of ReadProcessed: no special case for processed == 0.
ReadProcessedNoZeroCase ==
    /\ mainpc = "readProcessed"
    /\ mainpc' = "eval"
    /\ UNCHANGED <<config, fileInfos, cur, semaphore, tasks, locals, panicked>>

\* if processed == 0 { dotRename(filename); return }
ReadProcessed ==
    /\ mainpc = "readProcessed"
    /\ mainpc' = IF processed = 0 THEN "rename" ELSE "eval"
    /\ UNCHANGED <<config, fileInfos, cur, semaphore, tasks, locals, panicked>>

\* normalErrRate, as the fraction 1/100.
normalErrRate == [num |-> 1, den |-> 100]

\* float64(e) / float64(p), as a fraction.  The counters are far below 2^53,
\* so the conversions are exact and the correctly rounded quotient compares
\* with the double nearest 0.01 as the exact fractions do.
Rate(e, p) == [num |-> e, den |-> p]

\* Faulty variant of Less: <= for <.
LessOrEqual(a, b) == a.num * b.den <= b.num * a.den

Less(a, b) == a.num * b.den < b.num * a.den

\* The log line the evaluation writes for the counters read.
Evaluation(e, p) ==
    IF Less(Rate(e, p), normalErrRate) THEN "success" ELSE "failure"

\* Faulty variant of Evaluate: a failed load returns without the rename.
EvaluateFailureReturns ==
    /\ mainpc = "eval"
    /\ evalLog' = Evaluation(errors, processed)
    /\ mainpc' = IF Evaluation(errors, processed) = "success" THEN "rename" ELSE "loop"
    /\ UNCHANGED <<config, fileInfos, cur, semaphore, processed, errors,
                   resultChan, closed, wg, scanned, mainReg, cpc, creg, tasks,
                   fate, dispatched, received, failed, lineErrs, renames,
                   marked, panicked>>

Evaluate ==
    /\ mainpc = "eval"
    /\ evalLog' = Evaluation(errors, processed)
    /\ mainpc' = "rename"
    /\ UNCHANGED <<config, fileInfos, cur, semaphore, processed, errors,
                   resultChan, closed, wg, scanned, mainReg, cpc, creg, tasks,
                   fate, dispatched, received, failed, lineErrs, renames,
                   marked, panicked>>

\* dotRename(filename), its error dropped, and the return of processFile.
DotRename ==
    /\ mainpc = "rename"
    /\ renames' = renames + 1
    /\ \E ok \in BOOLEAN : marked' = ok
    /\ mainpc' = "loop"
    /\ UNCHANGED <<config, fileInfos, cur, semaphore, processed, errors,
                   resultChan, closed, wg, scanned, mainReg, cpc, creg, tasks,
                   fate, dispatched, received, failed, lineErrs, evalLog,
                   panicked>>

\* ------------------------------------------------------- specifications
NoRecord == [err |-> "none"]

\* The variables of the parsing and serialization specifications, unused.
PureIdle ==
    /\ parseLine = <<>>
    /\ parseResult = NoRecord
    /\ record = NoRecord
    /\ packed = <<>>
    /\ unpacked = NoRecord

RECURSIVE SeqsUpTo(_, _)
SeqsUpTo(S, n) ==
    IF n = 0 THEN {<<>>}
    ELSE LET shorter == SeqsUpTo(S, n - 1)
         IN  shorter \cup {Append(q, x) : q \in {r \in shorter : Len(r) = n - 1}, x \in S}

InitWith(maxFiles, maxTimes, maxLines) ==
    /\ files \in SeqsUpTo(1 .. maxTimes, maxFiles)
    /\ lineLimit = maxLines
    /\ dry \in BOOLEAN
    /\ fileInfos = <<>>
    /\ cur = 0
    /\ mainpc = "stat"
    /\ semaphore = 0
    /\ processed = 0
    /\ errors = 0
    /\ resultChan = <<>>
    /\ closed = FALSE
    /\ wg = 0
    /\ scanned = 0
    /\ mainReg = 0
    /\ cpc = "none"
    /\ creg = 0
    /\ tasks = EmptyBag
    /\ fate = "none"
    /\ dispatched = 0
    /\ received = 0
    /\ failed = 0
    /\ lineErrs = 0
    /\ evalLog = "none"
    /\ renames = 0
    /\ marked = FALSE
    /\ panicked = FALSE
    /\ renameErrLogged = FALSE
    /\ PureIdle

Init == InitWith(PipeFiles, PipeTimes, PipeLines)

Next ==
    \/ StatFiles
    \/ SortFiles
    \/ CallProcessFile
    \/ Finish
    \/ OpenFile
    \/ NewGzipReader
    \/ ScanLine
    \/ ErrStore
    \/ Acquire
    \/ ScanEOF
    \/ ScanError
    \/ Insert
    \/ Send
    \/ Release
    \/ WgDone
    \/ CounterRecv
    \/ CounterErrStore
    \/ CounterExit
    \/ WgWait
    \/ CloseResultChan
    \/ Sleep
    \/ ReadProcessed
    \/ Evaluate
    \/ DotRename

Spec == Init /\ [][Next]_vars

\* The ordering specification: more files and modification times, every
\* file empty, so that no line is scanned and no write goroutine started.
InitOrder == InitWith(OrderFiles, OrderTimes, 0)

NextOrder ==
    \/ StatFiles
    \/ SortFiles
    \/ CallProcessFile
    \/ Finish
    \/ OpenFile
    \/ NewGzipReader
    \/ ScanEOF
    \/ ScanError
    \/ CounterExit
    \/ WgWait
    \/ CloseResultChan
    \/ Sleep
    \/ ReadProcessed
    \/ DotRename

SpecOrder == InitOrder /\ [][NextOrder]_vars

\* The evaluation specification: processFile has scanned a file with p
\* lines that were written and e lines that did not parse, every outcome
\* has been counted and the counting goroutine has ended; the main
\* goroutine is about to read the counters.
InitEval ==
    /\ files = <<1>>
    /\ lineLimit = 2 * MaxCount
    /\ dry \in BOOLEAN
    /\ fileInfos = <<[path |-> 1, modTime |-> 1]>>
    /\ cur = 1
    /\ mainpc = "readProcessed"
    /\ semaphore = 0
    /\ processed \in 0 .. MaxCount
    /\ errors \in 0 .. MaxCount
    /\ resultChan = <<>>
    /\ closed = TRUE
    /\ wg = 0
    /\ scanned = processed + errors
    /\ mainReg = IF errors = 0 THEN 0 ELSE errors - 1
    /\ cpc = "exit"
    /\ creg = 0
    /\ tasks = EmptyBag
    /\ fate = "scanning"
    /\ dispatched = processed
    /\ received = processed
    /\ failed = 0
    /\ lineErrs = errors
    /\ evalLog = "none"
    /\ renames = 0
    /\ marked = FALSE
    /\ panicked = FALSE
    /\ renameErrLogged = FALSE
    /\ PureIdle

NextEval ==
    \/ ReadProcessed
    \/ Evaluate
    \/ DotRename
    \/ Finish

SpecEval == InitEval /\ [][NextEval]_vars

\* ---------------------------------------------------------------- claims
\* Write goroutines that hold a slot: started, deferred release not yet run.
InFlight ==
    LET S == {t \in BagToSet(tasks) : t.pc \in {"insert", "send", "release"}}
    IN  BagCardinality([t \in S |-> CopiesIn(t, tasks)])

Ascending(s) == \A i, j \in DOMAIN s : i < j => s[i].modTime <= s[j].modTime

Paths(s) == {s[i].path : i \in DOMAIN s}

SameEntries(s, t) ==
    /\ Len(s) = Len(t)
    /\ \A e \in {s[i] : i \in DOMAIN s} \cup {t[i] : i \in DOMAIN t} :
          Cardinality({i \in DOMAIN s : s[i] = e}) =
          Cardinality({i \in DOMAIN t : t[i] = e})

Sorted == mainpc \notin {"stat", "sort"}

\* The call of processFile got past gzip.NewReader.
ReachedScan == fate \in {"scanning", "readErr"}

\* C1: when processFile reads processed / errors for the evaluation, every
\* outcome of a dispatched write goroutine has been counted.
C1_CountedBeforeEvaluation ==
    mainpc \in {"readProcessed", "eval"} =>
        received = dispatched /\ cpc # "errStore"

\* C2: the scanning loop and the counting goroutine are never both inside
\* errors++, and once the counting goroutine has ended errors is the number
\* of line failures plus the number of failed write goroutines.
C2_SynchronizedCounters ==
    /\ ~(mainpc = "errStore" /\ cpc = "errStore")
    /\ (cpc = "exit" => errors = lineErrs + failed)

\* C3: the write goroutines holding a slot never outnumber the capacity of
\* the semaphore, and a write goroutine is started only from a state in
\* which the semaphore is not full.
C3_GateBound ==
    /\ [](InFlight <= SemCap /\ semaphore <= SemCap)
    /\ [][dispatched' > dispatched => semaphore < SemCap]_vars

C3_Witness == mainpc = "acquire" /\ semaphore = SemCap /\ InFlight = SemCap

\* C4: when processFile is about to be called for the next file, and while
\* that file is opened, no write goroutine is alive and no slot is held, and
\* the file before has been renamed or was skipped at open / gzip.NewReader.
C4_OneFileAtATime ==
    /\ (mainpc \in {"loop", "open", "gzip"} =>
            tasks = EmptyBag /\ semaphore = 0 /\ wg = 0)
    /\ (mainpc = "loop" /\ cur >= 1 =>
            \/ fate \in {"openErr", "gzipErr"} /\ renames = 0
            \/ ReachedScan /\ renames = 1)

C4_Witness ==
    mainpc = "loop" /\ cur = 1 /\ Len(fileInfos) = 2 /\ dispatched = PipeLines
    /\ renames = 1

\* C5: the files are processed in ascending order of modification time, and
\* the processed sequence holds exactly the files whose stat succeeded.
C5_ChronologicalOrder ==
    /\ [](Sorted => /\ Ascending(fileInfos)
                    /\ \A i \in DOMAIN fileInfos :
                          fileInfos[i].modTime = files[fileInfos[i].path])
    /\ [][mainpc = "sort" => SameEntries(fileInfos, fileInfos')]_vars
    /\ [][Sorted => fileInfos' = fileInfos /\ cur' \in {cur, cur + 1}]_vars

C5_Witness ==
    /\ mainpc = "done"
    /\ files = <<2, 3, 1>>
    /\ cur = 3
    /\ [i \in 1 .. 3 |-> fileInfos[i].path] = <<3, 1, 2>>

\* C6: files with equal modification time are processed in the order in
\* which they were discovered.
C6_StableOrder ==
    Sorted => \A i, j \in DOMAIN fileInfos :
                 (i < j /\ fileInfos[i].modTime = fileInfos[j].modTime)
                     => fileInfos[i].path < fileInfos[j].path

\* C7: with processed > 0 the evaluation logs a successful load exactly when
\* errors / processed < 0.01, a failed load otherwise; 1 error in 100 is a
\* failed load, 0 errors in 100 a successful one.
C7_ErrorRate ==
    (mainpc \in {"rename", "loop", "done"} /\ processed > 0) =>
        /\ evalLog = "success" <=> errors * 100 < processed
        /\ evalLog = "failure" <=> errors * 100 >= processed
        /\ (processed = 100 /\ errors = 1 => evalLog = "failure")
        /\ (processed = 100 /\ errors = 0 => evalLog = "success")

C7_Witness ==
    mainpc = "loop" /\ processed = 100 /\ errors = 1 /\ evalLog = "failure"

\* C8: a file whose processed count is 0 at the end, whatever its errors,
\* is renamed, and neither evaluation log line is written for it.
C8_ZeroProcessed ==
    (mainpc = "loop" /\ ReachedScan /\ processed = 0) =>
        renames = 1 /\ evalLog = "none"

C8_Witness ==
    /\ mainpc = "loop" /\ ReachedScan /\ processed = 0 /\ errors > 0
    /\ cpc = "exit" /\ renames = 1 /\ evalLog = "none"

\* C9: dotRename is called exactly once for every file that got past the
\* scan, whatever the evaluation logged, never twice, and no path is
\* handed to processFile twice.
C9_RenamedOnce ==
    /\ renames <= 1
    /\ (mainpc = "loop" /\ ReachedScan => renames = 1)
    /\ (renames = 1 => ReachedScan)
    /\ Cardinality(Paths(fileInfos)) = Len(fileInfos)

C9_Witness ==
    mainpc = "loop" /\ evalLog = "failure" /\ renames = 1 /\ cur = 2

\* C10: a file that cannot be opened or cannot be decompressed is skipped:
\* no write goroutine is started for it, it is not evaluated and dotRename
\* is not called for it.
C10_UnreadableSkipped ==
    fate \in {"openErr", "gzipErr", "readErr"} =>
        dispatched = 0 /\ evalLog = "none" /\ renames = 0

\* --------------------------------------------- the parsing specification
\* Everything of main and processFile but the position of the main goroutine.
pipeline == <<files, lineLimit, dry, renameErrLogged, fileInfos, cur,
              semaphore, tasks, locals, panicked>>

\* Fields a line is made of.
Fields ==
    { EmptyField, <<"idfa">>, <<"55.55">>, <<"x">>, <<"1", "x", "3">>,
      <<"3", " 7">> }

ParseLines == SeqsUpTo(Fields, MaxFields) \ {<<>>}

InitParse ==
    /\ parseLine \in ParseLines
    /\ parseResult = NoRecord
    /\ record = NoRecord
    /\ packed = <<>>
    /\ unpacked = NoRecord
    /\ files = <<>>
    /\ lineLimit = 0
    /\ dry = FALSE
    /\ fileInfos = <<>>
    /\ cur = 0
    /\ mainpc = "parse"
    /\ semaphore = 0
    /\ processed = 0
    /\ errors = 0
    /\ resultChan = <<>>
    /\ closed = FALSE
    /\ wg = 0
    /\ scanned = 0
    /\ mainReg = 0
    /\ cpc = "none"
    /\ creg = 0
    /\ tasks = EmptyBag
    /\ fate = "none"
    /\ dispatched = 0
    /\ received = 0
    /\ failed = 0
    /\ lineErrs = 0
    /\ evalLog = "none"
    /\ renames = 0
    /\ marked = FALSE
    /\ panicked = FALSE
    /\ renameErrLogged = FALSE

\* A call of parseAppsInstalled.
Parse ==
    /\ mainpc = "parse"
    /\ parseResult' = parseAppsInstalled(parseLine)
    /\ mainpc' = "parsed"
    /\ UNCHANGED <<pipeline, parseLine, record, packed, unpacked>>

NextParse == Parse

SpecParse == InitParse /\ [][NextParse]_vars

\* --------------------------------------- the serialization specification
\* Faulty variant of MakeUserApps: the coordinates the wrong way round.
MakeUserAppsSwapped(r) == [Lat |-> r.Lon, Lon |-> r.Lat, Apps |-> r.Apps]

\* The UserApps message insertAppsInstalled builds from a record.
MakeUserApps(r) == [Lat |-> r.Lat, Lon |-> r.Lon, Apps |-> r.Apps]

\* The serializer is the generated appsinstalled.pb.go with the protobuf
\* library: the wire format of a message {lat: double, lon: double,
\* apps: repeated uint32}.  A double travels as the 8 bytes of its bit
\* pattern, low byte first; an app id as a base-128 varint.
RECURSIVE Varint(_)
Varint(n) ==
    IF n < 128 THEN <<n>>
    ELSE <<(n % 128) + 128>> \o Varint(n \div 128)

RECURSIVE LittleEndian(_, _)
LittleEndian(n, k) ==
    IF k = 0 THEN <<>>
    ELSE <<n % 256>> \o LittleEndian(n \div 256, k - 1)

RECURSIVE AppsField(_)
AppsField(apps) ==
    IF apps = <<>> THEN <<>>
    ELSE <<8>> \o Varint(Head(apps)) \o AppsField(Tail(apps))

\* proto.Marshal
ProtoMarshal(m) ==
    AppsField(m.Apps) \o <<17>> \o LittleEndian(m.Lat, 8)
                      \o <<25>> \o LittleEndian(m.Lon, 8)

\* The varint at the head of b: its value and its length.
RECURSIVE ReadVarint(_)
ReadVarint(b) ==
    IF Head(b) < 128 THEN [v |-> Head(b), n |-> 1]
    ELSE LET r == ReadVarint(Tail(b))
         IN  [v |-> (Head(b) - 128) + 128 * r.v, n |-> r.n + 1]

RECURSIVE FromLittleEndian(_)
FromLittleEndian(b) ==
    IF b = <<>> THEN 0
    ELSE Head(b) + 256 * FromLittleEndian(Tail(b))

\* The message with no field set (-1: an optional field that is absent).
EmptyUserApps == [Lat |-> -1, Lon |-> -1, Apps |-> <<>>]

RECURSIVE Decode(_, _)
Decode(b, m) ==
    IF b = <<>> THEN m
    ELSE IF Head(b) = 8
    THEN LET r == ReadVarint(Tail(b))
         IN  Decode(SubSeq(b, r.n + 2, Len(b)),
                    [m EXCEPT !.Apps = Append(m.Apps, r.v)])
    ELSE IF Head(b) = 17
    THEN Decode(SubSeq(b, 10, Len(b)),
                [m EXCEPT !.Lat = FromLittleEndian(SubSeq(b, 2, 9))])
    ELSE Decode(SubSeq(b, 10, Len(b)),
                [m EXCEPT !.Lon = FromLittleEndian(SubSeq(b, 2, 9))])

\* proto.Unmarshal into a fresh message
ProtoUnmarshal(b) == Decode(b, EmptyUserApps)

\* Bit patterns of finite coordinates and app ids.  The largest number the
\* model checker computes with is 2^31 - 1.
Coordinates == {0, 4242, 5555, 2147483647}

AppIds == {0, 1, 127, 128, 16384, 2147483647}

InitProto ==
    /\ record \in [err : {"nil"}, DevType : {<<"idfa">>}, DevID : {<<"ID1">>},
                   Lat : Coordinates, Lon : Coordinates,
                   Apps : SeqsUpTo(AppIds, MaxApps)]
    /\ packed = <<>>
    /\ unpacked = NoRecord
    /\ parseLine = <<>>
    /\ parseResult = NoRecord
    /\ files = <<>>
    /\ lineLimit = 0
    /\ dry = FALSE
    /\ fileInfos = <<>>
    /\ cur = 0
    /\ mainpc = "marshal"
    /\ semaphore = 0
    /\ processed = 0
    /\ errors = 0
    /\ resultChan = <<>>
    /\ closed = FALSE
    /\ wg = 0
    /\ scanned = 0
    /\ mainReg = 0
    /\ cpc = "none"
    /\ creg = 0
    /\ tasks = EmptyBag
    /\ fate = "none"
    /\ dispatched = 0
    /\ received = 0
    /\ failed = 0
    /\ lineErrs = 0
    /\ evalLog = "none"
    /\ renames = 0
    /\ marked = FALSE
    /\ panicked = FALSE
    /\ renameErrLogged = FALSE

\* insertAppsInstalled up to proto.Marshal.
Marshal ==
    /\ mainpc = "marshal"
    /\ packed' = ProtoMarshal(MakeUserApps(record))
    /\ mainpc' = "unmarshal"
    /\ UNCHANGED <<pipeline, parseLine, parseResult, record, unpacked>>

\* proto.Unmarshal of the bytes, as protoTest does.
Unmarshal ==
    /\ mainpc = "unmarshal"
    /\ unpacked' = ProtoUnmarshal(packed)
    /\ mainpc' = "roundtrip"
    /\ UNCHANGED <<pipeline, parseLine, parseResult, record, packed>>

NextProto ==
    \/ Marshal
    \/ Unmarshal

SpecProto == InitProto /\ [][NextProto]_vars

\* ------------------------------------------- the progress specification
\* One discovered file; every goroutine that can take a step eventually
\* takes one (the scheduler is fair, and a call of client.Set returns: the
\* client has a 3 s timeout, main.go:325).
InitFair == InitWith(1, 1, PipeLines)

Fairness ==
    /\ WF_vars(StatFiles) /\ WF_vars(SortFiles) /\ WF_vars(CallProcessFile)
    /\ WF_vars(Finish) /\ WF_vars(OpenFile) /\ WF_vars(NewGzipReader)
    /\ WF_vars(ScanLine \/ ScanEOF \/ ScanError)
    /\ WF_vars(ErrStore) /\ WF_vars(Acquire)
    /\ WF_vars(Insert) /\ WF_vars(Send) /\ WF_vars(Release) /\ WF_vars(WgDone)
    /\ WF_vars(CounterRecv) /\ WF_vars(CounterErrStore) /\ WF_vars(CounterExit)
    /\ WF_vars(WgWait) /\ WF_vars(CloseResultChan) /\ WF_vars(Sleep)
    /\ WF_vars(ReadProcessed) /\ WF_vars(Evaluate) /\ WF_vars(DotRename)

SpecFair == InitFair /\ [][Next]_vars /\ Fairness

\* Live write goroutines at one of the positions P.
TasksAt(P) ==
    LET S == {t \in BagToSet(tasks) : t.pc \in P}
    IN  BagCardinality([t \in S |-> CopiesIn(t, tasks)])

\* Live write goroutines at one of the positions P whose insert failed.
FailedTasksAt(P) ==
    LET S == {t \in BagToSet(tasks) : t.pc \in P /\ ~t.ok}
    IN  BagCardinality([t \in S |-> CopiesIn(t, tasks)])

NumFalse(q) == Cardinality({i \in DOMAIN q : ~q[i]})

\* C11: a line that does not parse, or whose device type is unknown, starts
\* no write goroutine and takes no slot, the scan goes on with the next
\* line, and the error count rises by exactly one.
C11_LineFailure ==
    [][/\ (mainpc = "scan" /\ mainpc' = "errStore") =>
              /\ dispatched' = dispatched /\ semaphore' = semaphore
              /\ tasks' = tasks /\ wg' = wg /\ lineErrs' = lineErrs + 1
       /\ (mainpc = "errStore" /\ mainpc' # "errStore") =>
              /\ mainpc' = "scan" /\ errors' = errors + 1
              /\ dispatched' = dispatched /\ semaphore' = semaphore
              /\ tasks' = tasks /\ wg' = wg]_vars

\* C12: the slots held are exactly the write goroutines started whose
\* deferred release has not run, whatever their outcome.
C12_SlotPerTask ==
    /\ semaphore = TasksAt({"insert", "send", "release"})
    /\ semaphore <= dispatched
    /\ (tasks = EmptyBag => semaphore = 0)

C12_Witness ==
    /\ semaphore = 0 /\ tasks = EmptyBag /\ dispatched = PipeLines
    /\ failed >= 1 /\ failed < dispatched

\* C13: every write goroutine hands exactly one outcome to resultChan, true
\* exactly when insertAppsInstalled returned no error: the values sent so far
\* are as many as the goroutines past their send, and the false ones among
\* them as many as the failed goroutines past their send.
C13_OneOutcomePerTask ==
    /\ received + Len(resultChan) = dispatched - TasksAt({"insert", "send"})
    /\ (received - processed) + NumFalse(resultChan)
           = failed - FailedTasksAt({"send"})
    /\ (mainpc \in {"close", "sleep", "readProcessed", "eval", "rename"} =>
            received + Len(resultChan) = dispatched)

C13_Witness ==
    /\ mainpc = "close" /\ dispatched = PipeLines /\ failed = 1
    /\ received + Len(resultChan) = PipeLines

\* C14: a write goroutine issues at most one client.Set and none after a
\* failure; none when proto.Marshal failed (the outcome is then a failure)
\* and none in dry mode (the outcome is then a success unless Marshal failed).
C14_SingleAttempt ==
    \A t \in BagToSet(tasks) :
        /\ t.writes <= 1
        /\ (t.pc = "insert" => t.writes = 0)
        /\ (dry => t.writes = 0)
        /\ (t.writes = 0 /\ t.pc # "insert" /\ ~dry => ~t.ok)
        /\ (t.ok /\ t.pc # "insert" /\ ~dry => t.writes = 1)

C14_Witness ==
    /\ ~dry
    /\ \E t \in BagToSet(tasks) : t.pc = "wgDone" /\ ~t.ok /\ t.writes = 1
    /\ \E t \in BagToSet(tasks) : t.pc = "send" /\ ~t.ok /\ t.writes = 0

\* The app ids a comma-separated field holds: its tokens, trimmed, that are
\* decimal numbers, in their order.
RECURSIVE ValidApps(_)
ValidApps(toks) ==
    IF toks = <<>> THEN <<>>
    ELSE LET t == IF Head(toks) = " 7" THEN "7" ELSE Head(toks)
             v == IF t = "0" THEN <<0>> ELSE IF t = "1" THEN <<1>>
                  ELSE IF t = "3" THEN <<3>> ELSE IF t = "7" THEN <<7>> ELSE <<>>
         IN  v \o ValidApps(Tail(toks))

IsCoordinate(f) == f \in {<<"55.55">>}

\* C15: a line of at least five fields whose first or second field is
\* empty fails with MissingIdentity.
C15_MissingIdentity ==
    (mainpc = "parsed" /\ Len(parseLine) >= 5
        /\ (parseLine[1] = EmptyField \/ parseLine[2] = EmptyField))
    => parseResult.err = "MissingIdentity"

\* C16: a line of at least five fields with both identity fields and both
\* coordinates good gives a record whose apps are the valid tokens of the
\* fifth field in their order, empty when the field holds no valid token.
C16_AppsSubsequence ==
    (mainpc = "parsed" /\ Len(parseLine) >= 5
        /\ parseLine[1] # EmptyField /\ parseLine[2] # EmptyField
        /\ IsCoordinate(parseLine[3]) /\ IsCoordinate(parseLine[4]))
    => /\ parseResult.err = "nil"
       /\ parseResult.Apps = ValidApps(parseLine[5])

\* C17: a dotRename that failed has a log line.
C17_RenameFailureLogged ==
    (mainpc = "loop" /\ renames = 1 /\ ~marked) => renameErrLogged

C19_Progress ==
    /\ (mainpc = "scan") ~> (mainpc = "loop" /\ renames = 1)
    /\ (tasks # EmptyBag) ~> (tasks = EmptyBag /\ semaphore = 0)
    /\ (cpc = "recv") ~> (cpc = "exit")

C19_Witness ==
    /\ mainpc = "wait" /\ wg > 0 /\ semaphore = SemCap
    /\ Len(resultChan) = ResultCap
    /\ TasksAt({"send"}) >= 1

\* C20: no write goroutine sends on resultChan after close(resultChan):
\* when the channel is closed every goroutine started has sent its outcome
\* and has ended.
C20_NoSendAfterClose ==
    /\ ~panicked
    /\ (closed => /\ tasks = EmptyBag
                  /\ received + Len(resultChan) = dispatched)
    /\ (mainpc = "close" => TasksAt({"insert", "send"}) = 0)

C20_Witness ==
    /\ closed /\ ~panicked /\ dispatched = PipeLines
    /\ Len(resultChan) = ResultCap

====
